---- MODULE Spec2Model ----
(***************************************************************************)
(* adrest/auth.py: the pluggable authenticators, the chain resolver        *)
(* AuthenticatorMixin.authenticate and the rights gate                     *)
(* AuthenticatorMixin.check_rights.                                        *)
(*                                                                         *)
(* Python strings are sequences of one-character strings, so '' is <<>>,   *)
(* and str.split, str.lower and base64.b64decode are computed on the       *)
(* characters.  A dict is a function whose DOMAIN is its key set.          *)
(***************************************************************************)
EXTENDS Integers, Sequences, FiniteSets, TLC

\* Longest configured authenticator tuple and longest meta.models tuple.
MaxChain == 2
MaxModels == 2

----------------------------------------------------------------------------
(* Characters, str methods, base64                                         *)

\* The printable ASCII characters, code 32 first.
ASCII ==
  << " ", "!", "<dquote>", "#", "$", "%", "&", "'", "(", ")", "*", "+", ",", "-", ".", "/",
     "0", "1", "2", "3", "4", "5", "6", "7", "8", "9", ":", ";", "<", "=", ">", "?",
     "@", "A", "B", "C", "D", "E", "F", "G", "H", "I", "J", "K", "L", "M", "N", "O",
     "P", "Q", "R", "S", "T", "U", "V", "W", "X", "Y", "Z", "[", "<backslash>", "]", "^", "_",
     "<backtick>", "a", "b", "c", "d", "e", "f", "g", "h", "i", "j", "k", "l", "m", "n", "o",
     "p", "q", "r", "s", "t", "u", "v", "w", "x", "y", "z", "{", "|", "}", "~" >>

Ord(c) == 31 + (CHOOSE n \in 1..Len(ASCII) : ASCII[n] = c)

Chr(n) == ASCII[n - 31]

\* str.lower()
lower_char(c) == IF Ord(c) >= Ord("A") /\ Ord(c) <= Ord("Z") THEN Chr(Ord(c) + 32) ELSE c

lower(s) == [i \in 1..Len(s) |-> lower_char(s[i])]

\* str.split(sep): the pieces between the separators, [''] for ''.
RECURSIVE split(_, _)
split(s, sep) ==
  IF s = <<>> THEN << <<>> >>
  ELSE LET rest == split(Tail(s), sep)
       IN  IF Head(s) = sep
           THEN << <<>> >> \o rest
           ELSE << <<Head(s)>> \o Head(rest) >> \o Tail(rest)

\* str.split(): the pieces between runs of blanks, no empty piece.
split_ws(s) == SelectSeq(split(s, " "), LAMBDA piece : piece # <<>>)

\* The characters base64 reads; b64decode discards every other one.
b64_char(c) ==
  LET o == Ord(c)
  IN  \/ o >= Ord("A") /\ o <= Ord("Z")
      \/ o >= Ord("a") /\ o <= Ord("z")
      \/ o >= Ord("0") /\ o <= Ord("9")
      \/ c \in {"+", "/", "="}

\* The value of one character of the base64 alphabet.
b64_value(c) ==
  LET o == Ord(c)
  IN  IF o >= Ord("A") /\ o <= Ord("Z") THEN o - 65
      ELSE IF o >= Ord("a") /\ o <= Ord("z") THEN o - 71
      ELSE IF o >= Ord("0") /\ o <= Ord("9") THEN o + 4
      ELSE IF c = "+" THEN 62
      ELSE IF c = "/" THEN 63
      ELSE 0

\* The bytes of one group of four base64 characters ('=' pads the group).
b64_quad(q) ==
  LET n == b64_value(q[1]) * 262144 + b64_value(q[2]) * 4096
           + (IF q[3] = "=" THEN 0 ELSE b64_value(q[3]) * 64)
           + (IF q[4] = "=" THEN 0 ELSE b64_value(q[4]))
      b1 == n \div 65536
      b2 == (n \div 256) % 256
      b3 == n % 256
  IN  IF q[3] = "=" THEN << Chr(b1) >>
      ELSE IF q[4] = "=" THEN << Chr(b1), Chr(b2) >>
      ELSE << Chr(b1), Chr(b2), Chr(b3) >>

RECURSIVE b64_groups(_)
b64_groups(s) ==
  IF Len(s) < 4 THEN <<>>
  ELSE b64_quad(SubSeq(s, 1, 4)) \o b64_groups(SubSeq(s, 5, Len(s)))

\* base64.b64decode(s): the decoded string, or TypeError('Incorrect padding')
\* when the characters do not make whole groups of four.
b64decode(s) ==
  LET read == SelectSeq(s, b64_char)
  IN  IF Len(read) % 4 # 0
      THEN [exc |-> "TypeError", value |-> <<>>]
      ELSE [exc |-> "none", value |-> b64_groups(read)]

----------------------------------------------------------------------------
(* Collaborators: principals, the credential store, the token store        *)

None == [kind |-> "None", username |-> <<>>, is_active |-> FALSE]

User(name, active) == [kind |-> "User", username |-> name, is_active |-> active]

alice == User(<<"a">>, TRUE)
bob == User(<<"b">>, FALSE)
carol == User(<<"c">>, TRUE)

\* The value of a parameter that REQUEST.get does not find.
PyNone == <<"None">>

\* django.contrib.auth.authenticate(username=, password=): the principal of
\* the credentials, inactive ones included, or None.
django_authenticate(username, password) ==
  IF username = <<"a">> /\ password = <<"p">> THEN alice
  ELSE IF username = <<"b">> /\ password = <<"p">> THEN bob
  ELSE IF username = <<"c">> /\ password = <<"p", ":", "q">> THEN carol
  ELSE None

\* CsrfViewMiddleware().process_view(request, None, (), {}) is None
csrf_passed(request) == request.csrf_ok

\* AccessKey.objects.get(key=access_key): the key's owner, or ObjectDoesNotExist.
AccessKey_get(access_key) ==
  IF access_key = <<"k", "1">>
  THEN [exc |-> "none", user |-> alice]
  ELSE [exc |-> "ObjectDoesNotExist", user |-> None]

----------------------------------------------------------------------------
(* The authenticators                                                      *)

\* What one authenticate() call did: the exception that left it ("none" when
\* it returned), the identifier it returned, and the request afterwards.
Returned(identifier, request) ==
  [exc |-> "none", identifier |-> identifier, request |-> request]

Raised(exc, request) ==
  [exc |-> exc, identifier |-> <<>>, request |-> request]

\* A constructor that presets an identifier.
BaseAuthenticator_init_preset == <<"?">>

\* BaseAuthenticator.__init__: a fresh instance has the identifier ''.
BaseAuthenticator_init == <<>>

\* AnonimousAuthenticator.get_identifier
AnonimousAuthenticator_get_identifier(request) ==
  IF "REMOTE_ADDR" \in DOMAIN request.META
  THEN request.META["REMOTE_ADDR"]
  ELSE <<"a", "n", "o", "n", "y", "m", "o", "u", "s">>

AnonimousAuthenticator_authenticate(request) ==
  Returned(AnonimousAuthenticator_get_identifier(request), request)

\* BasicAuthenticator.authenticate
BasicAuthenticator_authenticate(request) ==
  IF "HTTP_AUTHORIZATION" \notin DOMAIN request.META
  THEN Returned(BaseAuthenticator_init, request)
  ELSE
    LET auth == split_ws(request.META["HTTP_AUTHORIZATION"])
    IN  IF ~(Len(auth) = 2 /\ lower(auth[1]) = <<"b", "a", "s", "i", "c">>)
        THEN Returned(BaseAuthenticator_init, request)
        ELSE
          LET decoded == b64decode(auth[2])
              parts == split(decoded.value, ":")
          IN  IF decoded.exc # "none" THEN Raised(decoded.exc, request)
              ELSE IF Len(parts) # 2 THEN Raised("ValueError", request)
              ELSE
                LET user == django_authenticate(parts[1], parts[2])
                IN  IF user # None /\ user.is_active
                    THEN Returned(user.username, request)
                    ELSE Returned(BaseAuthenticator_init, request)

\* request.REQUEST.get(name)
REQUEST_get(request, name) ==
  IF name \in DOMAIN request.REQUEST THEN request.REQUEST[name] ELSE PyNone

\* A parameter check that validates the credentials and attaches nothing.
UserAuthenticator_no_attach(request) ==
  LET username == REQUEST_get(request, "username")
      password == REQUEST_get(request, "password")
      user == django_authenticate(username, password)
  IN  Returned(IF user # None THEN user.username ELSE <<>>, request)

\* UserAuthenticator.authenticate
UserAuthenticator_authenticate(request) ==
  LET username == REQUEST_get(request, "username")
      password == REQUEST_get(request, "password")
      user == django_authenticate(username, password)
      attached == [request EXCEPT !.user = user]
  IN  Returned(IF user # None THEN user.username ELSE <<>>, attached)

\* A session check that skips the anti-forgery validation.
UserLoggedInAuthenticator_no_csrf(request) ==
  IF request.user # None /\ request.user.is_active
  THEN Returned(request.user.username, request)
  ELSE Returned(BaseAuthenticator_init, request)

\* UserLoggedInAuthenticator.authenticate
UserLoggedInAuthenticator_authenticate(request) ==
  IF request.user # None /\ request.user.is_active /\ csrf_passed(request)
  THEN Returned(request.user.username, request)
  ELSE Returned(BaseAuthenticator_init, request)

\* A token check that reads the 'key' parameter first and the header second.
AccessKeyAuthenticator_prefers_key(request) ==
  LET header == IF "HTTP_AUTHORIZATION" \in DOMAIN request.META
                THEN request.META["HTTP_AUTHORIZATION"]
                ELSE <<>>
  IN  IF header = <<>> /\ "key" \notin DOMAIN request.REQUEST
      THEN Returned(BaseAuthenticator_init, request)
      ELSE
        LET access_key == IF "key" \in DOMAIN request.REQUEST
                          THEN request.REQUEST["key"] ELSE header
            api_key == AccessKey_get(access_key)
        IN  IF api_key.exc # "none"
            THEN Returned(BaseAuthenticator_init, request)
            ELSE Returned(api_key.user.username,
                          [request EXCEPT !.user = api_key.user])

\* AccessKeyAuthenticator.authenticate
AccessKeyAuthenticator_authenticate(request) ==
  LET header == IF "HTTP_AUTHORIZATION" \in DOMAIN request.META
                THEN request.META["HTTP_AUTHORIZATION"]
                ELSE <<>>
  IN  IF header = <<>> /\ "key" \notin DOMAIN request.REQUEST
      THEN Returned(BaseAuthenticator_init, request)
      ELSE
        LET access_key == IF header # <<>> THEN header ELSE request.REQUEST["key"]
            api_key == AccessKey_get(access_key)
        IN  IF api_key.exc # "none"
            THEN Returned(BaseAuthenticator_init, request)
            ELSE Returned(api_key.user.username,
                          [request EXCEPT !.user = api_key.user])

\* Authenticator classes of the module, and subclasses of AnonimousAuthenticator
\* that override test_rights.
StockAuthenticators ==
  { "AnonimousAuthenticator", "BasicAuthenticator", "UserAuthenticator",
    "UserLoggedInAuthenticator", "AccessKeyAuthenticator" }

RestrictingAuthenticators ==
  { "DenyAllAuthenticator", "ReadOnlyAuthenticator", "BookOnlyAuthenticator" }

\* cls(self).authenticate() on the request of the handler
cls_authenticate(cls, request) ==
  CASE cls = "BasicAuthenticator" -> BasicAuthenticator_authenticate(request)
    [] cls = "UserAuthenticator" -> UserAuthenticator_authenticate(request)
    [] cls = "UserLoggedInAuthenticator" -> UserLoggedInAuthenticator_authenticate(request)
    [] cls = "AccessKeyAuthenticator" -> AccessKeyAuthenticator_authenticate(request)
    [] OTHER -> AnonimousAuthenticator_authenticate(request)

\* BaseAuthenticator.test_rights, and what the restricting subclasses make of it
test_rights(cls, resource, method) ==
  CASE cls = "DenyAllAuthenticator" -> FALSE
    [] cls = "ReadOnlyAuthenticator" -> method = "GET"
    [] cls = "BookOnlyAuthenticator" -> resource = "Book"
    [] OTHER -> TRUE

----------------------------------------------------------------------------
(* AuthenticatorMixin                                                      *)

\* The authenticator instance a handler holds in self.auth, None at first.
NoAuth == [cls |-> "None", identifier |-> <<>>, resource |-> "None"]

\* The classes that override authenticate(): what it returns is the
\* self.identifier they assigned, or the '' of __init__.
AssigningAuthenticators ==
  { "BasicAuthenticator", "UserAuthenticator", "UserLoggedInAuthenticator",
    "AccessKeyAuthenticator" }

\* cls(self) right after BaseAuthenticator.__init__
Fresh(cls) ==
  [cls |-> cls, identifier |-> BaseAuthenticator_init, resource |-> "self"]

\* An instance that forgets the identifier its authenticate() assigned.
Instance_unassigned(cls, identifier) ==
  [cls |-> cls, identifier |-> BaseAuthenticator_init, resource |-> "self"]

\* cls(self) once its authenticate() returned `identifier`: AnonimousAuthenticator
\* and its subclasses compute it from the request and never assign self.identifier.
Instance(cls, identifier) ==
  [cls |-> cls,
   identifier |-> IF cls \in AssigningAuthenticators
                  THEN identifier ELSE BaseAuthenticator_init,
   resource |-> "self"]

\* instance.get_identifier() while the handler holds `request`
get_identifier(instance, request) ==
  IF instance.cls \in AssigningAuthenticators
  THEN instance.identifier
  ELSE AnonimousAuthenticator_get_identifier(request)

\* One entry of the record of authenticate() calls made by the resolver.
Call(pos, cls, done) ==
  [pos |-> pos, cls |-> cls, exc |-> done.exc, identifier |-> done.identifier]

\* `if result:`
truthy(result) == result # <<>>

\* A resolver that falls through to the `return True` under the loop instead of
\* raising.
exhausted_returns_true(auth, request, trace) ==
  [status |-> "returned", result |-> <<"T", "r", "u", "e">>, auth |-> auth,
   request |-> request, trace |-> trace]

\* A resolver that drops the context of the handler when every authenticator
\* failed.
exhausted_clears_auth(auth, request, trace) ==
  [status |-> "HttpError401", result |-> <<>>, auth |-> NoAuth,
   request |-> request, trace |-> trace]

\* The else branch of the for loop: every authenticator was tried.
exhausted(auth, request, trace) ==
  [status |-> "HttpError401", result |-> <<>>, auth |-> auth,
   request |-> request, trace |-> trace]

\* A resolver that does not return inside the loop: it tries every authenticator
\* and the last one that succeeds becomes self.auth.
RECURSIVE for_authenticators_no_return(_, _, _, _, _)
after_call_no_return(classes, i, auth, trace, done) ==
  IF done.exc # "none"
  THEN [status |-> done.exc, result |-> <<>>, auth |-> auth,
        request |-> done.request, trace |-> Append(trace, Call(i, classes[i], done))]
  ELSE for_authenticators_no_return(
         classes, i + 1,
         IF truthy(done.identifier) THEN Instance(classes[i], done.identifier) ELSE auth,
         done.request, Append(trace, Call(i, classes[i], done)))

for_authenticators_no_return(classes, i, auth, request, trace) ==
  IF i > Len(classes)
  THEN IF auth.resource = "self" /\ trace # <<>>
       THEN [status |-> "returned", result |-> get_identifier(auth, request), auth |-> auth,
             request |-> request, trace |-> trace]
       ELSE exhausted(auth, request, trace)
  ELSE after_call_no_return(classes, i, auth, trace, cls_authenticate(classes[i], request))

\* AuthenticatorMixin.authenticate from position i of the tuple on.
RECURSIVE for_authenticators(_, _, _, _, _)

\* The body of the loop once authenticator(self).authenticate() is done.
after_call(classes, i, auth, trace, done) ==
  IF done.exc # "none"
  THEN [status |-> done.exc, result |-> <<>>, auth |-> auth,
        request |-> done.request, trace |-> Append(trace, Call(i, classes[i], done))]
  ELSE IF truthy(done.identifier)
  THEN [status |-> "returned", result |-> done.identifier,
        auth |-> Instance(classes[i], done.identifier),
        request |-> done.request, trace |-> Append(trace, Call(i, classes[i], done))]
  ELSE for_authenticators(classes, i + 1, auth, done.request,
                          Append(trace, Call(i, classes[i], done)))

for_authenticators(classes, i, auth, request, trace) ==
  IF i > Len(classes) THEN exhausted(auth, request, trace)
  ELSE after_call(classes, i, auth, trace, cls_authenticate(classes[i], request))

AuthenticatorMixin_authenticate(classes, auth, request) ==
  for_authenticators(classes, 1, auth, request, <<>>)

\* m._meta.module_name
module_name(m) ==
  CASE m = "Author" -> "author"
    [] m = "Book" -> "book"

\* resources.get(name)
resources_get(resources, name) ==
  IF name \in DOMAIN resources THEN resources[name] ELSE FALSE

\* A filter that looks the model itself up in the dict: resources.get(m)
mresources_by_model(models, resources) ==
  SelectSeq(models, LAMBDA m : resources_get(resources, m))

\* A filter that keeps every declared model, whatever the request implicates.
mresources_all(models, resources) == models

\* [ m for m in self.meta.models if resources.get(m._meta.module_name) ]
mresources(models, resources) ==
  SelectSeq(models, LAMBDA m : resources_get(resources, module_name(m)))

\* A loop that tests every resource and raises after the last one.
RECURSIVE for_mresources_no_stop(_, _, _, _, _)
for_mresources_no_stop(auth, mrs, i, method, evaluated) ==
  IF i > Len(mrs)
  THEN [status |-> IF \A k \in 1..Len(mrs) : test_rights(auth.cls, mrs[k], method)
                   THEN "returned" ELSE "HttpError403",
        evaluated |-> evaluated]
  ELSE for_mresources_no_stop(auth, mrs, i + 1, method, Append(evaluated, mrs[i]))

\* The loop of check_rights from position i of mresources on.
RECURSIVE for_mresources(_, _, _, _, _)
for_mresources(auth, mrs, i, method, evaluated) ==
  IF i > Len(mrs) THEN [status |-> "returned", evaluated |-> evaluated]
  ELSE IF test_rights(auth.cls, mrs[i], method)
  THEN for_mresources(auth, mrs, i + 1, method, Append(evaluated, mrs[i]))
  ELSE [status |-> "HttpError403", evaluated |-> Append(evaluated, mrs[i])]

\* AuthenticatorMixin.check_rights
AuthenticatorMixin_check_rights(auth, models, resources, method) ==
  IF auth # NoAuth
  THEN for_mresources(auth, mresources(models, resources), 1, method, <<>>)
  ELSE [status |-> "returned", evaluated |-> <<>>]

----------------------------------------------------------------------------
(* Requests                                                                *)

\* 'Basic YTpw': alice's credentials a:p
HdrValid == <<"B", "a", "s", "i", "c", " ", "Y", "T", "p", "w">>

\* 'BASIC Yjpw': b:p, the inactive bob
HdrInactive == <<"B", "A", "S", "I", "C", " ", "Y", "j", "p", "w">>

\* 'Basic YTp4': a:x, a password the store rejects
HdrRejected == <<"B", "a", "s", "i", "c", " ", "Y", "T", "p", "4">>

\* 'basic YzpwOnE=': c:p:q, carol's password p:q
HdrColonPassword == <<"b", "a", "s", "i", "c", " ", "Y", "z", "p", "w", "O", "n", "E", "=">>

\* 'Basic YXA=': ap, no colon
HdrNoColon == <<"B", "a", "s", "i", "c", " ", "Y", "X", "A", "=">>

\* 'Basic YTp': three characters, not a whole base64 group
HdrBadBase64 == <<"B", "a", "s", "i", "c", " ", "Y", "T", "p">>

\* 'Digest YTpw': another scheme
HdrDigest == <<"D", "i", "g", "e", "s", "t", " ", "Y", "T", "p", "w">>

\* 'Basic': one token
HdrOneToken == <<"B", "a", "s", "i", "c">>

\* 'Basic YTpw x': three tokens
HdrThreeTokens == <<"B", "a", "s", "i", "c", " ", "Y", "T", "p", "w", " ", "x">>

\* 'k1': the access key of alice
HdrKey == <<"k", "1">>

\* '': the empty header
HdrEmpty == <<>>

Headers ==
  { HdrValid, HdrInactive, HdrRejected, HdrColonPassword, HdrNoColon, HdrBadBase64,
    HdrDigest, HdrOneToken, HdrThreeTokens, HdrKey, HdrEmpty }

Addr == <<"1", "0", ".", "1">>

\* request.META: any of the two keys may be missing.
METAs ==
  { [k \in D |-> IF k = "REMOTE_ADDR" THEN a ELSE h] :
      D \in SUBSET {"REMOTE_ADDR", "HTTP_AUTHORIZATION"}, a \in {<<>>, Addr}, h \in Headers }

\* request.REQUEST: any of the three parameters may be missing.
REQUESTs ==
  { [k \in D |-> IF k = "username" THEN <<"a">> ELSE IF k = "password" THEN p ELSE key] :
      D \in SUBSET {"username", "password", "key"},
      p \in {<<"p">>, <<"x">>}, key \in {<<"k", "1">>, <<"k", "x">>} }

Users == {None, alice, bob}

Methods == {"GET", "POST"}

ModelUniverse == {"Author", "Book"}

\* Keys of the implicated-resources dict; no model has the module name "tag".
ModuleNames == {"author", "book", "tag"}

\* The implicated resources: TRUE for a non-empty value, FALSE for an empty one.
ResourceMaps ==
  { [k \in D |-> k \in T] : D \in SUBSET ModuleNames, T \in SUBSET ModuleNames }

Tuples(S, n) == UNION { [1..k -> S] : k \in 0..n }

\* What an authenticator class reads from or writes to the request.
Touches(cls) ==
  CASE cls = "BasicAuthenticator" -> {"header"}
    [] cls = "UserAuthenticator" -> {"params", "user"}
    [] cls = "UserLoggedInAuthenticator" -> {"user", "csrf"}
    [] cls = "AccessKeyAuthenticator" -> {"header", "key", "user"}
    [] OTHER -> {"addr"}

Touched(classes) == UNION { Touches(classes[i]) : i \in 1..Len(classes) }

\* A part of the request that no configured authenticator touches has one value.
Untouched(classes, META, REQUEST, user, csrf_ok) ==
  LET t == Touched(classes)
  IN  /\ "addr" \notin t => "REMOTE_ADDR" \in DOMAIN META /\ META["REMOTE_ADDR"] = Addr
      /\ "header" \notin t => "HTTP_AUTHORIZATION" \notin DOMAIN META
      /\ "params" \notin t => DOMAIN REQUEST \cap {"username", "password"} = {}
      /\ "key" \notin t => "key" \notin DOMAIN REQUEST
      /\ "user" \notin t => user = None
      /\ "csrf" \notin t => csrf_ok

----------------------------------------------------------------------------
(* The handler                                                             *)

VARIABLES
  authenticators,  \* self.authenticators, a tuple of classes
  models,          \* self.meta.models
  request,         \* self.request
  auth,            \* self.auth
  outcome,         \* how the call of self.authenticate() ended
  rights           \* how the call of self.check_rights() ended

vars == <<authenticators, models, request, auth, outcome, rights>>

NotAuthenticated == [status |-> "idle", result |-> <<>>, trace |-> <<>>]

NotChecked == [status |-> "idle", evaluated |-> <<>>]

\* Handlers with any tuple of the module's authenticators, on any request.
InitResolver ==
  \E classes \in Tuples(StockAuthenticators, MaxChain), m \in METAs, q \in REQUESTs,
     u \in Users, c \in BOOLEAN :
    /\ Untouched(classes, m, q, u, c)
    /\ authenticators = classes
    /\ models = <<"Author", "Book">>
    /\ request = [META |-> m, REQUEST |-> q, user |-> u, csrf_ok |-> c,
                  resources |-> [k \in {"author"} |-> TRUE], method |-> "GET"]

\* Handlers with one authenticator, with any models and implicated resources.
InitRights ==
  \E cls \in RestrictingAuthenticators \cup {"AnonimousAuthenticator", "BasicAuthenticator"},
     ms \in Tuples(ModelUniverse, MaxModels), rs \in ResourceMaps, me \in Methods :
    /\ authenticators = <<cls>>
    /\ models = ms
    /\ request = [META |-> [k \in {"REMOTE_ADDR"} |-> Addr], REQUEST |-> <<>>,
                  user |-> None, csrf_ok |-> TRUE, resources |-> rs, method |-> me]

Init ==
  /\ InitResolver \/ InitRights
  /\ auth = NoAuth
  /\ outcome = NotAuthenticated
  /\ rights = NotChecked

\* The handler after self.authenticate() ended as `run` tells.
Authenticated(run) ==
  /\ outcome' = [status |-> run.status, result |-> run.result, trace |-> run.trace]
  /\ auth' = run.auth
  /\ request' = run.request

\* self.authenticate()
Authenticate ==
  /\ outcome.status = "idle"
  /\ Authenticated(AuthenticatorMixin_authenticate(authenticators, auth, request))
  /\ UNCHANGED <<authenticators, models, rights>>

\* self.check_rights(resources, method), with the resources and the method of the request
CheckRights ==
  /\ rights.status = "idle"
  /\ rights' = AuthenticatorMixin_check_rights(auth, models, request.resources, request.method)
  /\ UNCHANGED <<authenticators, models, request, auth, outcome>>

Next == Authenticate \/ CheckRights

Spec == Init /\ [][Next]_vars

\* A handler that serves one request after another: one authenticator class,
\* the first request any request that class can tell apart.
InitReuse ==
  /\ \E cls \in StockAuthenticators \cup RestrictingAuthenticators,
        m \in METAs, q \in REQUESTs, u \in Users, c \in BOOLEAN :
       /\ Untouched(<<cls>>, m, q, u, c)
       /\ authenticators = <<cls>>
       /\ request = [META |-> m, REQUEST |-> q, user |-> u, csrf_ok |-> c,
                     resources |-> [k \in {"author"} |-> TRUE], method |-> "GET"]
  /\ models = <<"Author", "Book">>
  /\ auth = NoAuth
  /\ outcome = NotAuthenticated
  /\ rights = NotChecked

\* The handler is given the next request: self.request is replaced, self.auth
\* is whatever the calls on the earlier requests left in it.
Receive ==
  /\ \E m \in METAs, q \in REQUESTs, u \in Users, c \in BOOLEAN :
       /\ Untouched(authenticators, m, q, u, c)
       /\ request' = [META |-> m, REQUEST |-> q, user |-> u, csrf_ok |-> c,
                      resources |-> request.resources, method |-> request.method]
  /\ outcome' = NotAuthenticated
  /\ rights' = NotChecked
  /\ UNCHANGED <<authenticators, models, auth>>

NextReuse == Authenticate \/ CheckRights \/ Receive

SpecReuse == InitReuse /\ [][NextReuse]_vars

----------------------------------------------------------------------------
(* Properties                                                              *)

\* The step of the handler is the call of authenticate() / of check_rights().
AuthenticateStep == outcome.status = "idle" /\ outcome'.status # "idle"

CheckRightsStep == rights.status = "idle" /\ rights'.status # "idle"

Min(S) == CHOOSE x \in S : \A y \in S : x <= y

\* The calls the resolver made were made on the configured classes, one per
\* position, in the configured order, from the first position on.
InConfiguredOrder ==
  /\ Len(outcome.trace) <= Len(authenticators)
  /\ \A i \in 1..Len(outcome.trace) :
       outcome.trace[i].pos = i /\ outcome.trace[i].cls = authenticators[i]

\* Every call the resolver made returned the empty identifier.
EveryCallReturnedEmpty ==
  \A i \in 1..Len(outcome.trace) :
    outcome.trace[i].exc = "none" /\ outcome.trace[i].identifier = <<>>

C2_FirstSuccessStops ==
  outcome.status = "returned"
    => LET n == Len(outcome.trace)
       IN  /\ n >= 1
           /\ InConfiguredOrder
           /\ \A i \in 1..(n - 1) : outcome.trace[i].identifier = <<>>
           /\ outcome.trace[n].identifier # <<>>
           /\ outcome.result = outcome.trace[n].identifier
           /\ auth = Instance(authenticators[n], outcome.result)

\* (BasicAuthenticator, AnonimousAuthenticator) with alice's header: 'a' is
\* returned by the first call and there is no second one.
C2_Witness ==
  /\ authenticators = <<"BasicAuthenticator", "AnonimousAuthenticator">>
  /\ "HTTP_AUTHORIZATION" \in DOMAIN request.META
  /\ request.META["HTTP_AUTHORIZATION"] = HdrValid
  /\ outcome.status = "returned"
  /\ outcome.result = <<"a">>
  /\ Len(outcome.trace) = 1
  /\ auth.cls = "BasicAuthenticator"

\* The authenticator returns an empty / a non-empty identifier on this request
\* when it is the only one that runs.
FailsAlone(cls, r) ==
  cls_authenticate(cls, r).exc = "none" /\ cls_authenticate(cls, r).identifier = <<>>

SucceedsAlone(cls, r) ==
  cls_authenticate(cls, r).exc = "none" /\ cls_authenticate(cls, r).identifier # <<>>

\* C3: authenticate() returns the identifier of the first configured
\* authenticator that succeeds on the request by itself; the authenticators that
\* fail before it do not change that.
C3_FirstAloneSucceederWins ==
  [][ AuthenticateStep =>
        \A i \in 1..Len(authenticators) :
          ( /\ SucceedsAlone(authenticators[i], request)
            /\ \A j \in 1..(i - 1) : FailsAlone(authenticators[j], request) )
          => /\ outcome'.status = "returned"
             /\ outcome'.result = cls_authenticate(authenticators[i], request).identifier
    ]_vars

\* C4: with no active authentication context (self.auth is None),
\* check_rights() ends in the 403 HttpError.
C4_NoContextForbidden ==
  [][ (CheckRightsStep /\ auth = NoAuth) => rights'.status = "HttpError403" ]_vars

\* The models of the handler whose module name has a non-empty value in the
\* implicated resources, in the declared order.
Relevant(ms, resources) ==
  SelectSeq(ms, LAMBDA m : /\ module_name(m) \in DOMAIN resources
                            /\ resources[module_name(m)])

\* The positions of the relevant resources that the active context denies.
Denied(cls, rel, method) ==
  { i \in 1..Len(rel) : ~test_rights(cls, rel[i], method) }

\* C5: with an active context, check_rights() returns True when test_rights is
\* true of every relevant resource, raises the 403 HttpError when it is false of
\* one, and evaluates no resource after the first denial.
C5_AllPassOrFirstDenialStops ==
  [][ (CheckRightsStep /\ auth # NoAuth) =>
        LET rel == Relevant(models, request.resources)
            denied == Denied(auth.cls, rel, request.method)
        IN  IF denied = {}
            THEN rights'.status = "returned" /\ rights'.evaluated = rel
            ELSE /\ rights'.status = "HttpError403"
                 /\ rights'.evaluated = SubSeq(rel, 1, Min(denied))
    ]_vars

\* Two relevant resources, the first one denied: 403, the second not evaluated.
C5_Witness ==
  /\ auth.cls = "BookOnlyAuthenticator"
  /\ Relevant(models, request.resources) = <<"Author", "Book">>
  /\ rights.status = "HttpError403"
  /\ rights.evaluated = <<"Author">>

\* C6, as claimed: with the context of an authenticator whose test_rights is
\* always false, check_rights() ends in the 403 HttpError whatever the
\* implicated resources are.
C6_DenyAllAlwaysForbidden ==
  [][ (CheckRightsStep /\ auth.cls = "DenyAllAuthenticator")
        => rights'.status = "HttpError403" ]_vars

\* C6, amended: with such a context check_rights() ends in the 403 HttpError
\* exactly when some model of the handler has a non-empty value in the
\* implicated resources, and returns True when none has.
C6_DenyAllForbiddenIffRelevant ==
  [][ (CheckRightsStep /\ auth.cls = "DenyAllAuthenticator") =>
        IF Relevant(models, request.resources) # <<>>
        THEN rights'.status = "HttpError403"
        ELSE rights'.status = "returned"
    ]_vars

\* The always-denying context, a relevant resource, 403.
C6_Witness ==
  /\ auth.cls = "DenyAllAuthenticator"
  /\ Relevant(models, request.resources) # <<>>
  /\ rights.status = "HttpError403"

\* C7: a handler with the default tuple (AnonimousAuthenticator,) never ends
\* in 401: authenticate() returns a non-empty identifier, REMOTE_ADDR when the
\* request has one and 'anonymous' when it has none.
C7_AnonymousNeverFails ==
  (authenticators = <<"AnonimousAuthenticator">> /\ outcome.status # "idle")
    => /\ outcome.status = "returned"
       /\ outcome.result # <<>>
       /\ outcome.result = IF "REMOTE_ADDR" \in DOMAIN request.META
                           THEN request.META["REMOTE_ADDR"]
                           ELSE <<"a", "n", "o", "n", "y", "m", "o", "u", "s">>

\* The header is not 'basic' followed by one base64 token of user:password.
Malformed(header) ==
  LET tokens == split_ws(header)
  IN  \/ Len(tokens) # 2
      \/ lower(tokens[1]) # <<"b", "a", "s", "i", "c">>
      \/ b64decode(tokens[2]).exc # "none"
      \/ Len(split(b64decode(tokens[2]).value, ":")) # 2

\* The calls of BasicAuthenticator.authenticate() the resolver made.
BasicCalls ==
  { i \in 1..Len(outcome.trace) : outcome.trace[i].cls = "BasicAuthenticator" }

\* C8: on a malformed HTTP_AUTHORIZATION header BasicAuthenticator.authenticate()
\* returns the empty identifier and does not raise.
C8_MalformedHeaderReturnsEmpty ==
  ( /\ "HTTP_AUTHORIZATION" \in DOMAIN request.META
    /\ Malformed(request.META["HTTP_AUTHORIZATION"]) )
    => \A i \in BasicCalls :
         outcome.trace[i].exc = "none" /\ outcome.trace[i].identifier = <<>>

\* The user names and the passwords a client may send.
Usernames == { <<"a">>, <<"b">>, <<"c">> }

Passwords == { <<"p">>, <<"x">>, <<"p", ":", "q">> }

\* The header is 'basic' followed by the base64 of username:password.
BasicHeaderOf(header, username, password) ==
  LET tokens == split_ws(header)
  IN  /\ Len(tokens) = 2
      /\ lower(tokens[1]) = <<"b", "a", "s", "i", "c">>
      /\ b64decode(tokens[2]) =
           [exc |-> "none", value |-> username \o <<":">> \o password]

\* C9: BasicAuthenticator.authenticate() returns the username of the principal
\* when the header carries credentials the store validates, and the empty
\* identifier when there is no header or the store rejects the credentials
\* (no principal, or an inactive one).
C9_BasicReturnsValidatedUsername ==
  \A i \in BasicCalls :
    /\ "HTTP_AUTHORIZATION" \notin DOMAIN request.META
         => outcome.trace[i].exc = "none" /\ outcome.trace[i].identifier = <<>>
    /\ "HTTP_AUTHORIZATION" \in DOMAIN request.META
         => \A u \in Usernames, p \in Passwords :
              BasicHeaderOf(request.META["HTTP_AUTHORIZATION"], u, p)
                => LET user == django_authenticate(u, p)
                   IN  /\ outcome.trace[i].exc = "none"
                       /\ outcome.trace[i].identifier =
                            IF user # None /\ user.is_active THEN user.username ELSE <<>>

\* C10: authenticate() followed by check_rights() ends in a non-empty
\* identifier with the rights allowed, in the 401 HttpError or in the 403
\* HttpError; no other exception leaves authenticate().
C10_OnlyThreeOutcomes ==
  /\ outcome.status \in {"idle", "returned", "HttpError401"}
  /\ outcome.status = "returned" => outcome.result # <<>>
  /\ rights.status \in {"idle", "returned", "HttpError403"}


\* C11: check_rights() calls test_rights only on models declared in
\* self.meta.models whose module name has a non-empty value in the implicated
\* resources, once per declaration and in the declared order; what else the
\* resources hold has no influence on the result.
C11_OnlyRelevantResourcesEvaluated ==
  [][ CheckRightsStep =>
        /\ \A k \in 1..Len(rights'.evaluated) :
             /\ \E i \in 1..Len(models) : models[i] = rights'.evaluated[k]
             /\ module_name(rights'.evaluated[k]) \in DOMAIN request.resources
             /\ request.resources[module_name(rights'.evaluated[k])]
        /\ Len(rights'.evaluated) <= Len(Relevant(models, request.resources))
        /\ rights'.evaluated =
             SubSeq(Relevant(models, request.resources), 1, Len(rights'.evaluated))
        /\ \A other \in ResourceMaps :
             Relevant(models, other) = Relevant(models, request.resources)
               => AuthenticatorMixin_check_rights(auth, models, other, request.method)
                    = rights'
    ]_vars

\* A declared model with an empty value and a key no model declares are
\* skipped; the one relevant model is the only one evaluated.
C11_Witness ==
  /\ models = <<"Author", "Book">>
  /\ DOMAIN request.resources = {"author", "book", "tag"}
  /\ ~request.resources["author"]
  /\ request.resources["book"]
  /\ request.resources["tag"]
  /\ auth # NoAuth
  /\ rights.status # "idle"
  /\ rights.evaluated = <<"Book">>


\* C12: when the authenticate() of every authenticator that was called
\* returned an empty identifier, request.user is the same after the call as it
\* was before it.
C12_EmptyResultKeepsPrincipal ==
  [][ ( /\ AuthenticateStep
        /\ \A k \in 1..Len(outcome'.trace) :
             outcome'.trace[k].exc = "none" /\ outcome'.trace[k].identifier = <<>> )
      => request'.user = request.user
    ]_vars


\* The classes whose authenticate() assigns request.user.
AttachingAuthenticators == {"UserAuthenticator", "AccessKeyAuthenticator"}

\* The call at position k of the trace saw the request as it was received.
SawReceivedRequest(trace, k) ==
  \A j \in 1..(k - 1) : trace[j].cls \notin AttachingAuthenticators

\* C13: UserLoggedInAuthenticator.authenticate() returns the username of
\* request.user when a principal is attached, is active and the CSRF check
\* passes, and the empty identifier otherwise, without raising; it leaves
\* request.user as it found it.
C13_SessionReturnsActivePrincipal ==
  [][ AuthenticateStep =>
        /\ \A k \in 1..Len(outcome'.trace) :
             ( /\ outcome'.trace[k].cls = "UserLoggedInAuthenticator"
               /\ SawReceivedRequest(outcome'.trace, k) )
             => /\ outcome'.trace[k].exc = "none"
                /\ outcome'.trace[k].identifier =
                     IF request.user # None /\ request.user.is_active /\ request.csrf_ok
                     THEN request.user.username
                     ELSE <<>>
        /\ ( \A k \in 1..Len(outcome'.trace) :
               outcome'.trace[k].cls = "UserLoggedInAuthenticator" )
           => request'.user = request.user
    ]_vars

\* The session authenticator alone accepted the attached active principal.
C13_Witness ==
  /\ authenticators = <<"UserLoggedInAuthenticator">>
  /\ outcome.status = "returned"
  /\ outcome.result = <<"a">>
  /\ request.user = alice
  /\ request.csrf_ok


\* What the credential store answers to the parameters of the request.
ParameterPrincipal(r) ==
  django_authenticate(REQUEST_get(r, "username"), REQUEST_get(r, "password"))

\* C14: UserAuthenticator.authenticate() returns the empty identifier
\* without raising when the username or password parameter is missing or the
\* credential store rejects them; otherwise it returns the username of the
\* validated principal and leaves that principal attached as request.user.
C14_ParametersReturnValidatedPrincipal ==
  [][ AuthenticateStep =>
        \A k \in 1..Len(outcome'.trace) :
          outcome'.trace[k].cls = "UserAuthenticator"
          => /\ outcome'.trace[k].exc = "none"
             /\ IF \/ "username" \notin DOMAIN request.REQUEST
                   \/ "password" \notin DOMAIN request.REQUEST
                   \/ ParameterPrincipal(request) = None
                THEN outcome'.trace[k].identifier = <<>>
                ELSE /\ outcome'.trace[k].identifier = ParameterPrincipal(request).username
                     /\ outcome'.trace[k].identifier # <<>>
                     /\ k = Len(outcome'.trace)
                     /\ outcome'.status = "returned"
                     /\ request'.user = ParameterPrincipal(request)
    ]_vars

\* Valid parameters: the username is returned and the principal is attached.
C14_Witness ==
  /\ authenticators = <<"UserAuthenticator">>
  /\ outcome.status = "returned"
  /\ outcome.result = <<"a">>
  /\ request.REQUEST["password"] = <<"p">>
  /\ request.user = alice


\* The authorization header of the request, empty when there is none.
AuthorizationHeader(r) ==
  IF "HTTP_AUTHORIZATION" \in DOMAIN r.META THEN r.META["HTTP_AUTHORIZATION"] ELSE <<>>

\* The token store knows the token.
KnownToken(token) == AccessKey_get(token).exc = "none"

\* The header or the 'key' parameter of the request carries a known token.
CarriesKnownToken(r) ==
  \/ KnownToken(AuthorizationHeader(r))
  \/ "key" \in DOMAIN r.REQUEST /\ KnownToken(r.REQUEST["key"])

\* The principal that owns the known token the request carries.
TokenOwner(r) ==
  IF KnownToken(AuthorizationHeader(r))
  THEN AccessKey_get(AuthorizationHeader(r)).user
  ELSE AccessKey_get(r.REQUEST["key"]).user

\* C15 as stated: AccessKeyAuthenticator.authenticate() returns the owner's
\* username and attaches the owner whenever the header or the 'key' parameter
\* carries a known token, and returns the empty identifier without raising
\* otherwise.
C15_EitherKnownTokenAccepted ==
  [][ AuthenticateStep =>
        \A k \in 1..Len(outcome'.trace) :
          outcome'.trace[k].cls = "AccessKeyAuthenticator"
          => /\ outcome'.trace[k].exc = "none"
             /\ IF CarriesKnownToken(request)
                THEN /\ outcome'.trace[k].identifier = TokenOwner(request).username
                     /\ request'.user = TokenOwner(request)
                ELSE outcome'.trace[k].identifier = <<>>
    ]_vars

\* C15, amended: the token is the authorization header when that is
\* non-empty and the 'key' parameter otherwise; authenticate() returns the
\* owner's username and attaches the owner when that one token is known, and
\* returns the empty identifier without raising when there is no token or the
\* lookup of that token fails, a valid 'key' next to an unknown header included.
C15_HeaderTokenBeforeKeyParameter ==
  [][ AuthenticateStep =>
        \A k \in 1..Len(outcome'.trace) :
          outcome'.trace[k].cls = "AccessKeyAuthenticator"
          => /\ outcome'.trace[k].exc = "none"
             /\ IF AuthorizationHeader(request) = <<>> /\ "key" \notin DOMAIN request.REQUEST
                THEN outcome'.trace[k].identifier = <<>>
                ELSE LET token == IF AuthorizationHeader(request) # <<>>
                                  THEN AuthorizationHeader(request)
                                  ELSE request.REQUEST["key"]
                     IN  IF KnownToken(token)
                         THEN /\ outcome'.trace[k].identifier = AccessKey_get(token).user.username
                              /\ outcome'.trace[k].identifier # <<>>
                              /\ k = Len(outcome'.trace)
                              /\ outcome'.status = "returned"
                              /\ request'.user = AccessKey_get(token).user
                         ELSE outcome'.trace[k].identifier = <<>>
    ]_vars

\* An unknown header hid the valid 'key' parameter: nobody was authenticated.
C15_Witness ==
  /\ authenticators = <<"AccessKeyAuthenticator">>
  /\ AuthorizationHeader(request) = HdrValid
  /\ "key" \in DOMAIN request.REQUEST
  /\ request.REQUEST["key"] = <<"k", "1">>
  /\ outcome.status = "HttpError401"
  /\ Len(outcome.trace) = 1
  /\ outcome.trace[1].exc = "none"


\* Every instance of the trace had authenticate() called on it once.
CalledOnce(trace) ==
  \A j, k \in 1..Len(trace) : trace[j].pos = trace[k].pos => j = k

\* The instance of call k kept the '' of its construction unless the call
\* succeeded, and a successful instance is the one the handler holds.
EmptyUnlessSucceeded(trace, k, status, held, req) ==
  trace[k].identifier # <<>>
    => /\ trace[k].exc = "none"
       /\ k = Len(trace)
       /\ status = "returned"
       /\ held.cls = trace[k].cls
       /\ get_identifier(held, req) = trace[k].identifier

\* C16 as stated: the get_identifier() of every instance of every class is
\* empty from construction until its authenticate() succeeded, is assigned at
\* most once, and is empty for an instance whose authenticate() failed.
C16_IdentifierEmptyUntilSuccess ==
  [][ AuthenticateStep =>
        /\ CalledOnce(outcome'.trace)
        /\ \A k \in 1..Len(outcome'.trace) :
             /\ get_identifier(Fresh(outcome'.trace[k].cls), request) = <<>>
             /\ EmptyUnlessSucceeded(outcome'.trace, k, outcome'.status, auth', request')
    ]_vars

\* C16, amended: that holds for the instances of the classes that assign
\* self.identifier. An instance of AnonimousAuthenticator (or of a subclass)
\* never assigns self.identifier, and its get_identifier() reports REMOTE_ADDR
\* or 'anonymous' from construction on, before authenticate() is called.
C16_AssignedIdentifierEmptyUntilSuccess ==
  [][ AuthenticateStep =>
        /\ CalledOnce(outcome'.trace)
        /\ \A k \in 1..Len(outcome'.trace) :
             /\ EmptyUnlessSucceeded(outcome'.trace, k, outcome'.status, auth', request')
             /\ Fresh(outcome'.trace[k].cls).identifier = <<>>
             /\ IF outcome'.trace[k].cls \in AssigningAuthenticators
                THEN get_identifier(Fresh(outcome'.trace[k].cls), request) = <<>>
                ELSE /\ get_identifier(Fresh(outcome'.trace[k].cls), request)
                          = AnonimousAuthenticator_get_identifier(request)
                     /\ outcome'.trace[k].identifier
                          = AnonimousAuthenticator_get_identifier(request)
                     /\ auth'.cls = outcome'.trace[k].cls => auth'.identifier = <<>>
    ]_vars

\* BasicAuthenticator failed with its identifier empty, then the anonymous
\* instance reported the address it reported from construction.
C16_Witness ==
  /\ authenticators = <<"BasicAuthenticator", "AnonimousAuthenticator">>
  /\ outcome.status = "returned"
  /\ Len(outcome.trace) = 2
  /\ outcome.trace[1].identifier = <<>>
  /\ outcome.result = Addr
  /\ get_identifier(Fresh("AnonimousAuthenticator"), request) = Addr
  /\ auth.identifier = <<>>


\* C18: when authenticate() returned an identifier, self.auth is an instance
\* of one of the configured classes, bound to this handler, and its
\* get_identifier() on the request as authenticate() left it is the identifier
\* that was returned.
C18_ContextAgreesWithResult ==
  outcome.status = "returned"
    => /\ \E i \in 1..Len(authenticators) : auth.cls = authenticators[i]
       /\ auth.cls = outcome.trace[Len(outcome.trace)].cls
       /\ auth.resource = "self"
       /\ get_identifier(auth, request) = outcome.result
       /\ outcome.result # <<>>

\* The second configured class authenticated the request and is the context.
C18_Witness ==
  /\ outcome.status = "returned"
  /\ Len(authenticators) = 2
  /\ authenticators[1] # authenticators[2]
  /\ auth.cls = "BasicAuthenticator"
  /\ auth.cls = authenticators[2]
  /\ get_identifier(auth, request) = <<"a">>


\* C17: over the calls of authenticate() and check_rights() on one handler,
\* self.auth changes only when an authenticate() call succeeds, to the instance
\* that succeeded; an authenticate() that raises and every check_rights() leave
\* it as it was, so that a check_rights() after a failed authenticate() still
\* asks the context an earlier request left behind.
C17_ContextChangesOnlyOnSuccess ==
  [][ /\ auth' # auth
        => /\ AuthenticateStep
           /\ outcome'.status = "returned"
           /\ auth' = Instance(outcome'.trace[Len(outcome'.trace)].cls, outcome'.result)
      /\ (AuthenticateStep /\ outcome'.status # "returned") => auth' = auth
      /\ CheckRightsStep => auth' = auth
      /\ (CheckRightsStep /\ outcome.status = "HttpError401" /\ auth # NoAuth)
        => /\ rights' = for_mresources(auth, Relevant(models, request.resources), 1,
                                       request.method, <<>>)
           /\ rights'.evaluated # <<>>
    ]_vars

\* The request was refused with 401, and check_rights() asked the context that
\* an earlier request of the handler had left.
C17_Witness ==
  /\ outcome.status = "HttpError401"
  /\ auth # NoAuth
  /\ auth.cls = authenticators[1]
  /\ rights.status = "returned"
  /\ rights.evaluated = <<"Author">>

====
